---- MODULE Spec2Model ----
(***************************************************************************)
(* Model of the chat widget script (modal variant, src/unnamed/part_000    *)
(* lines 340-787): the transcript chatHistory, the user profile, the       *)
(* async submit handler with its two suspension points (the name modal and *)
(* the fetch inside callOpenAI), and the event loop that interleaves       *)
(* submit events, modal events and network responses.                      *)
(*                                                                         *)
(* Each action is one run-to-completion piece of JavaScript: an event      *)
(* handler from its start to its first await, or a continuation from one   *)
(* await to the next.  Promise continuations wait in `microtasks` and run  *)
(* before any further event is dispatched.                                 *)
(***************************************************************************)
EXTENDS Integers, Sequences, FiniteSets, TLC

(***************************************************************************)
(* Bounds                                                                  *)
(***************************************************************************)
\* number of submit events with non-empty text accepted in one session
MaxSubmits == 3

(***************************************************************************)
(* String helpers (String.prototype.trim / toLowerCase / startsWith /      *)
(* slice as the handler uses them)                                         *)
(***************************************************************************)
CharAt(s, i) == SubSeq(s, i, i)

IsSpace(c) == c \in {" ", "\t", "\n", "\r"}

RECURSIVE TrimStart(_)
TrimStart(s) ==
  IF Len(s) = 0 THEN s
  ELSE IF IsSpace(CharAt(s, 1)) THEN TrimStart(SubSeq(s, 2, Len(s)))
  ELSE s

RECURSIVE TrimEnd(_)
TrimEnd(s) ==
  IF Len(s) = 0 THEN s
  ELSE IF IsSpace(CharAt(s, Len(s))) THEN TrimEnd(SubSeq(s, 1, Len(s) - 1))
  ELSE s

Trim(s) == TrimEnd(TrimStart(s))

UpperChars == <<"A","B","C","D","E","F","G","H","I","J","K","L","M",
                "N","O","P","Q","R","S","T","U","V","W","X","Y","Z">>
LowerChars == <<"a","b","c","d","e","f","g","h","i","j","k","l","m",
                "n","o","p","q","r","s","t","u","v","w","x","y","z">>

LowerChar(c) ==
  IF \E k \in 1..26 : UpperChars[k] = c
  THEN LowerChars[CHOOSE k \in 1..26 : UpperChars[k] = c]
  ELSE c

RECURSIVE ToLowerCase(_)
ToLowerCase(s) ==
  IF Len(s) = 0 THEN s
  ELSE LowerChar(CharAt(s, 1)) \o ToLowerCase(SubSeq(s, 2, Len(s)))

StartsWith(s, p) == Len(s) >= Len(p) /\ SubSeq(s, 1, Len(p)) = p

\* s.slice(n) for 0 <= n
Slice(s, n) == SubSeq(s, n + 1, Len(s))

(***************************************************************************)
(* Program constants                                                       *)
(***************************************************************************)
\* JavaScript null (userProfile.name before it is set, a skipped modal)
Null == "<null>"

\* truthiness of a string-or-null value
Truthy(v) == v # Null /\ v # ""

\* (the accent and the dash of the source text are written in ASCII)
SYSTEM_PROMPT ==
  "You are an official L'Oreal product assistant. ONLY answer questions related to L'Oreal products, skincare and haircare routines, and product recommendations. If a user asks about non-L'Oreal products or unrelated topics, politely explain you only provide L'Oreal-specific information and offer comparable L'Oreal alternatives when possible. Ask clarifying questions about skin type, hair type, concerns, sensitivities, and budget when needed. Do not provide medical, legal, or diagnostic advice - direct users to a professional in those cases. Keep answers friendly, factual, concise, and include product names and recommended usage steps when relevant."

\* content of the seeded greeting (the emoji and the accent are left out)
GREETING == "Hello! I'm the L'Oreal Product Advisor - I can help with L'Oreal products, skincare and haircare routines, and recommendations. What would you like to know?"

\* content of the typing indicator pushed and removed by the submit handler
PLACEHOLDER == "Preparing a *fabulous* response just for you..."

FALLBACK == "Sorry, I did not receive a reply."

AckContent(name) ==
  "Nice to meet you, " \o name \o ". I'll remember that for this session."

ProfileNote(name) ==
  "User profile: name=" \o name \o ". Remember this for future responses and personalize when appropriate."

(***************************************************************************)
(* Transcript entries.  role, content and initial are the fields of the    *)
(* JavaScript objects (initial is FALSE where the object has no such       *)
(* field); kind is a history field that records which statement pushed     *)
(* the entry and is never read by the program.                             *)
(***************************************************************************)
Entry(role, content, initial, kind) ==
  [role |-> role, content |-> content, initial |-> initial, kind |-> kind]

SeedEntry == Entry("assistant", GREETING, TRUE, "seed")
UserEntry(text) == Entry("user", text, FALSE, "user")
AckEntry(name) == Entry("assistant", AckContent(name), FALSE, "ack")
PlaceholderEntry == Entry("assistant", PLACEHOLDER, FALSE, "placeholder")
ReplyEntry(content, kind) == Entry("assistant", content, FALSE, kind)

IsSeedGreeting(m) == m.role = "assistant" /\ m.initial = TRUE
IsTransient(m) == m.role = "assistant" /\ m.content = PLACEHOLDER

KeepNotSeed(m) == ~IsSeedGreeting(m)
KeepNotTransient(m) == ~IsTransient(m)

\* variant of RemoveSeedGreeting: the greeting is never filtered out
RemoveSeedGreeting_Kept(h) == h

\* chatHistory.filter((m) => !(m.role === "assistant" && m.initial === true))
RemoveSeedGreeting(h) == SelectSeq(h, KeepNotSeed)

\* variant of RemoveTransient: the typing indicator is never filtered out
RemoveTransient_Kept(h) == h

\* chatHistory.filter((m) => !(m.role === "assistant" && m.content === PLACEHOLDER))
RemoveTransient(h) == SelectSeq(h, KeepNotTransient)

(***************************************************************************)
(* escapeHtml, applyInlineFormatting and formatMessage.  The markup is     *)
(* kept as the sequence of strings that formatMessage appends to           *)
(* `formatted`, grouped by iteration of its loop; the returned string is   *)
(* their concatenation.                                                    *)
(***************************************************************************)
\* variant of EscapeChar: the text is escaped a second time
EscapeChar_Twice(c) ==
  CASE c = "&" -> "&amp;amp;"
    [] c = "<" -> "&amp;lt;"
    [] c = ">" -> "&amp;gt;"
    [] OTHER -> c

\* variant of EscapeChar: only the ampersand is replaced
EscapeChar_OnlyAmp(c) == IF c = "&" THEN "&amp;" ELSE c

\* serialisation of a text node by p.innerHTML
EscapeChar(c) ==
  CASE c = "&" -> "&amp;"
    [] c = "<" -> "&lt;"
    [] c = ">" -> "&gt;"
    [] OTHER -> c

RECURSIVE EscapeHtml(_)
EscapeHtml(text) ==
  IF Len(text) = 0 THEN text
  ELSE EscapeChar(CharAt(text, 1)) \o EscapeHtml(SubSeq(text, 2, Len(text)))

\* characters that `.` does not match
IsLineTerminator(c) == c \in {"\n", "\r"}

NoLineTerminator(s) == \A i \in 1..Len(s) : ~IsLineTerminator(CharAt(s, i))

\* safe.split(/\r?\n/)
RECURSIVE SplitLines(_)
SplitLines(s) ==
  IF \E p \in 1..Len(s) : CharAt(s, p) = "\n"
  THEN LET p == CHOOSE q \in 1..Len(s) :
                  /\ CharAt(s, q) = "\n"
                  /\ \A j \in 1..(q - 1) : CharAt(s, j) # "\n"
           stop == IF p > 1 /\ CharAt(s, p - 1) = "\r" THEN p - 2 ELSE p - 1
       IN <<SubSeq(s, 1, stop)>> \o SplitLines(SubSeq(s, p + 1, Len(s)))
  ELSE <<s>>

RECURSIVE LeadingHashes(_)
LeadingHashes(s) ==
  IF Len(s) > 0 /\ CharAt(s, 1) = "#"
  THEN 1 + LeadingHashes(SubSeq(s, 2, Len(s)))
  ELSE 0

RECURSIVE LeadingSpaces(_)
LeadingSpaces(s) ==
  IF Len(s) > 0 /\ IsSpace(CharAt(s, 1))
  THEN 1 + LeadingSpaces(SubSeq(s, 2, Len(s)))
  ELSE 0

NoMatch == [matched |-> FALSE, level |-> 0, text |-> ""]

\* variant of HeadingMatch: the number of # is not limited to 6
HeadingMatch_Unlimited(line) ==
  LET h == LeadingHashes(line)
      rest == SubSeq(line, h + 1, Len(line))
      w == LeadingSpaces(rest)
      r == SubSeq(rest, w + 1, Len(rest))
  IN IF h >= 1 /\ w >= 1 /\ Len(r) > 0 /\ NoLineTerminator(r)
     THEN [matched |-> TRUE, level |-> h, text |-> r]
     ELSE NoMatch

\* line.match(/^(#{1,6})\s+(.+)$/): level is the length of group 1, text is
\* group 2.  The greedy \s+ takes the whole run of white space and gives
\* its last character back to (.+) when nothing follows the run.
HeadingMatch(line) ==
  LET h == LeadingHashes(line)
      rest == SubSeq(line, h + 1, Len(line))
      w == LeadingSpaces(rest)
      r == SubSeq(rest, w + 1, Len(rest))
  IN IF h \in 1..6 /\ w >= 1 /\ Len(r) > 0 /\ NoLineTerminator(r)
     THEN [matched |-> TRUE, level |-> h, text |-> r]
     ELSE IF /\ h \in 1..6 /\ w >= 2 /\ Len(r) = 0
             /\ ~IsLineTerminator(CharAt(rest, w))
     THEN [matched |-> TRUE, level |-> h, text |-> CharAt(rest, w)]
     ELSE NoMatch

IsBulletMarker(c) == c \in {"-", "*", "+"}

\* line.match(/^\s*([-*+])\s+(.*)$/): text is group 2
BulletMatch(line) ==
  LET a == LeadingSpaces(line)
      rest == SubSeq(line, a + 2, Len(line))
      w == LeadingSpaces(rest)
      item == SubSeq(rest, w + 1, Len(rest))
  IN IF /\ Len(line) > a
        /\ IsBulletMarker(CharAt(line, a + 1))
        /\ w >= 1
        /\ NoLineTerminator(item)
     THEN [matched |-> TRUE, level |-> 0, text |-> item]
     ELSE NoMatch

\* /^#{1,6}\s+/.test(nextLine)
NextIsHeading(nextLine) ==
  LET h == LeadingHashes(nextLine)
  IN h \in 1..6 /\ Len(nextLine) > h /\ IsSpace(CharAt(nextLine, h + 1))

\* /^\s*[-*+]\s+/.test(nextLine)
NextIsBullet(nextLine) ==
  LET a == LeadingSpaces(nextLine)
  IN /\ Len(nextLine) > a + 1
     /\ IsBulletMarker(CharAt(nextLine, a + 1))
     /\ IsSpace(CharAt(nextLine, a + 2))

\* lengths of group 1 for a match of /\*\*(.+?)\*\*/ that starts at p
StrongLengths(s, p) ==
  {n \in 1..Len(s) :
     /\ p + 3 + n <= Len(s)
     /\ SubSeq(s, p, p + 1) = "**"
     /\ SubSeq(s, p + 2 + n, p + 3 + n) = "**"
     /\ NoLineTerminator(SubSeq(s, p + 2, p + 1 + n))}

\* variant of Least: a greedy quantifier
Least_Greedy(S) == CHOOSE n \in S : \A m \in S : n >= m

\* the shortest match of a lazy quantifier
Least(S) == CHOOSE n \in S : \A m \in S : n <= m

\* text.replace(/\*\*(.+?)\*\*/g, "<strong>$1</strong>"), from position p
RECURSIVE StrongFrom(_, _)
StrongFrom(s, p) ==
  IF p > Len(s) THEN ""
  ELSE IF StrongLengths(s, p) # {}
  THEN LET n == Least(StrongLengths(s, p))
       IN "<strong>" \o SubSeq(s, p + 2, p + 1 + n) \o "</strong>"
            \o StrongFrom(s, p + 4 + n)
  ELSE CharAt(s, p) \o StrongFrom(s, p + 1)

\* variant of EmClosings: no look-arounds and an interior that may be empty
EmClosings_AllowsEmpty(s, p, m) ==
  {q \in (p + 1)..Len(s) :
     /\ CharAt(s, p) = m
     /\ CharAt(s, q) = m
     /\ \A j \in (p + 1)..(q - 1) : CharAt(s, j) # m}

\* positions of the closing marker for a match of
\* /(?<!m)m(?!m)([^m]+?)m(?!m)/ that starts at p
EmClosings(s, p, m) ==
  {q \in (p + 2)..Len(s) :
     /\ CharAt(s, p) = m
     /\ (p = 1 \/ CharAt(s, p - 1) # m)
     /\ CharAt(s, p + 1) # m
     /\ CharAt(s, q) = m
     /\ \A j \in (p + 1)..(q - 1) : CharAt(s, j) # m
     /\ (q = Len(s) \/ CharAt(s, q + 1) # m)}

\* text.replace(/(?<!m)m(?!m)([^m]+?)m(?!m)/g, "<em>$1</em>"), from p
RECURSIVE EmFrom(_, _, _)
EmFrom(s, p, m) ==
  IF p > Len(s) THEN ""
  ELSE IF EmClosings(s, p, m) # {}
  THEN LET q == Least(EmClosings(s, p, m))
       IN "<em>" \o SubSeq(s, p + 1, q - 1) \o "</em>" \o EmFrom(s, q + 1, m)
  ELSE CharAt(s, p) \o EmFrom(s, p + 1, m)

ApplyInlineFormatting(text) ==
  EmFrom(EmFrom(StrongFrom(text, 1), 1, "*"), 1, "_")

\* if (inList) { formatted += "</ul>"; } before a heading or a regular line
CloseList(inList) == IF inList THEN <<"</ul>">> ELSE <<>>

\* variant of FinalClose: the list is not closed after the loop
FinalClose_Missing(inList) == <<>>

\* if (inList) { formatted += "</ul>"; } after the loop
FinalClose(inList) == IF inList THEN <<"</ul>">> ELSE <<>>

\* variant of BreakAfter: only the first branch, no break beside a blank line
BreakAfter_NoBlankBranch(lines, i, line) ==
  IF i < Len(lines)
  THEN IF /\ ~NextIsHeading(lines[i + 1]) /\ ~NextIsBullet(lines[i + 1])
          /\ Trim(line) # "" /\ Trim(lines[i + 1]) # ""
       THEN <<"<br>">>
       ELSE <<>>
  ELSE <<>>

\* the break after regular line i; line is lines[i] after inline formatting
BreakAfter(lines, i, line) ==
  IF i < Len(lines)
  THEN LET nextLine == lines[i + 1]
           nextIsHeading == NextIsHeading(nextLine)
           nextIsBullet == NextIsBullet(nextLine)
           currentIsEmpty == Trim(line) = ""
           nextIsEmpty == Trim(nextLine) = ""
       IN IF ~nextIsHeading /\ ~nextIsBullet
             /\ ~currentIsEmpty /\ ~nextIsEmpty
          THEN <<"<br>">>
          ELSE IF currentIsEmpty \/ nextIsEmpty
          THEN <<"<br>">>
          ELSE <<>>
  ELSE <<>>

HeadingElement(level, text) ==
  "<h" \o ToString(level) \o ">" \o text \o "</h" \o ToString(level) \o ">"

\* one iteration of the loop: the strings appended and the new inList
FormatLine(lines, i, inList) ==
  LET line == lines[i]
      headingMatch == HeadingMatch(line)
      bulletMatch == BulletMatch(line)
  IN IF headingMatch.matched
     THEN [out |-> CloseList(inList)
                   \o <<HeadingElement(headingMatch.level,
                          ApplyInlineFormatting(headingMatch.text))>>,
           inList |-> FALSE]
     ELSE IF bulletMatch.matched
     THEN [out |-> (IF ~inList THEN <<"<ul>">> ELSE <<>>)
                   \o <<"<li>" \o ApplyInlineFormatting(bulletMatch.text)
                          \o "</li>">>,
           inList |-> TRUE]
     ELSE [out |-> CloseList(inList)
                   \o <<ApplyInlineFormatting(line)>>
                   \o BreakAfter(lines, i, ApplyInlineFormatting(line)),
           inList |-> FALSE]

\* the loop from iteration i on, then the closing of an open list: one
\* sequence of strings per iteration and one for what follows the loop
RECURSIVE FormatLoop(_, _, _)
FormatLoop(lines, i, inList) ==
  IF i > Len(lines) THEN <<FinalClose(inList)>>
  ELSE LET step == FormatLine(lines, i, inList)
       IN <<step.out>> \o FormatLoop(lines, i + 1, step.inList)

\* if (!text) return ""; escape; split; loop
FormatParts(text) ==
  IF text = "" THEN <<>>
  ELSE FormatLoop(SplitLines(EscapeHtml(text)), 1, FALSE)

RECURSIVE Flatten(_)
Flatten(parts) ==
  IF Len(parts) = 0 THEN <<>> ELSE Head(parts) \o Flatten(Tail(parts))

RECURSIVE Concat(_)
Concat(strings) ==
  IF Len(strings) = 0 THEN "" ELSE Head(strings) \o Concat(Tail(strings))

\* the string returned by formatMessage
FormatMessage(text) == Concat(Flatten(FormatParts(text)))

(***************************************************************************)
(* Inputs of the environment                                               *)
(***************************************************************************)
\* values of userInput.value at a submit event while the input is enabled
InputTexts == {"  ", " hi ", "/NAME  Al ", "/name Bo"}

\* events that end the name modal: the modal form submitted with
\* nameInputEl.value = value, or skip button / close button / Escape
ModalEvents ==
  {[type |-> "submit", value |-> " Al "],
   [type |-> "submit", value |-> "  "],
   [type |-> "skip", value |-> ""]}

\* what the fetch and the parsing of its response produce:
\*   reply   res.ok, choices[0].message.content = content
\*   missing res.ok, the content field is null or undefined
\*   notOk   !res.ok, res.status = status, res.text() = content
\*   throw   fetch or res.json() throws an Error whose message is content
Responses ==
  {[outcome |-> "reply", status |-> 200, content |-> "Sure."],
   [outcome |-> "reply", status |-> 200, content |-> PLACEHOLDER],
   [outcome |-> "missing", status |-> 200, content |-> ""],
   [outcome |-> "notOk", status |-> 500, content |-> "down"],
   [outcome |-> "throw", status |-> 0, content |-> "Failed to fetch"]}

(***************************************************************************)
(* State                                                                   *)
(***************************************************************************)
VARIABLES
  chatHistory,    \* the transcript: sequence of entries
  userProfile,    \* [name |-> string or Null]
  hasAskedName,   \* the handler went past the name modal once
  inputDisabled,  \* userInput.disabled
  sendDisabled,   \* sendBtn.disabled
  rendered,       \* the transcript as last drawn by renderChat
  renders,        \* the windows drawn by the renderChat calls of the last
                  \* step, in call order
  modalWaiters,   \* handlers suspended at await openNameModal(), in the
                  \* order their listeners were registered: [id, text]
  microtasks,     \* resolved modal promises whose continuation has not
                  \* run: [id, text, nameValue]
  requests,       \* fetches in flight: [id, text, messages]; id is a
                  \* history field, the number of the submission
  promptCount,    \* history: number of calls of openNameModal
  nSubmits,       \* history: number of non-empty submissions
  last,           \* history: the step that led to this state
  fmt,            \* one call of formatMessage: [text, done, parts, html]
  inl             \* calls of applyInlineFormatting on one line and then on
                  \* its own result: [line, calls, prev, out]

vars == <<chatHistory, userProfile, hasAskedName, inputDisabled, sendDisabled,
          rendered, renders, modalWaiters, microtasks, requests,
          promptCount, nSubmits, last, fmt, inl>>

(***************************************************************************)
(* renderChat: one block per entry, with or without the author label.      *)
(* The body of a block is formatMessage(content), modelled above and       *)
(* exercised on its own by SpecFmt.                                        *)
(***************************************************************************)
\* chatHistory.some((m) => m.role === "user")
HasUserMessage(h) == \E i \in 1..Len(h) : h[i].role = "user"

\* chatHistory.findIndex((m) => m.role === "assistant"), 0 when there is none
FirstAssistantIndex(h) ==
  IF \E i \in 1..Len(h) : h[i].role = "assistant"
  THEN CHOOSE i \in 1..Len(h) :
         /\ h[i].role = "assistant"
         /\ \A j \in 1..(i - 1) : h[j].role # "assistant"
  ELSE 0

Author(m) == IF m.role = "user" THEN "You" ELSE "Advisor"

\* variant of HideMeta: the test for user messages is left out
HideMeta_AnyFirst(h, idx) ==
  h[idx].role = "assistant" /\ idx = FirstAssistantIndex(h)

HideMeta(h, idx) ==
  /\ h[idx].role = "assistant"
  /\ idx = FirstAssistantIndex(h)
  /\ ~HasUserMessage(h)

\* meta is the text of the label, "" when the block has no label element
RenderChat(h) ==
  [idx \in 1..Len(h) |->
     [role |-> h[idx].role,
      initial |-> h[idx].initial,
      meta |-> IF HideMeta(h, idx) THEN "" ELSE Author(h[idx]),
      content |-> h[idx].content,
      kind |-> h[idx].kind]]

Step(op, path, text) == [op |-> op, path |-> path, text |-> text]

\* no call of formatMessage under way
FmtIdle == [text |-> "", done |-> FALSE, parts |-> <<>>, html |-> ""]

\* the page after the script has run
ChatInit ==
  /\ chatHistory = <<SeedEntry>>
  /\ userProfile = [name |-> Null]
  /\ hasAskedName = FALSE
  /\ inputDisabled = FALSE
  /\ sendDisabled = FALSE
  /\ rendered = <<SeedEntry>>
  /\ renders = <<RenderChat(<<SeedEntry>>)>>
  /\ modalWaiters = <<>>
  /\ microtasks = <<>>
  /\ requests = <<>>
  /\ promptCount = 0
  /\ nSubmits = 0
  /\ last = Step("init", "", "")

\* no call of applyInlineFormatting under way
InlIdle == [line |-> "", calls |-> 0, prev |-> "", out |-> ""]

Init == ChatInit /\ fmt = FmtIdle /\ inl = InlIdle

(***************************************************************************)
(* callOpenAI, up to its await fetch: the request body                     *)
(***************************************************************************)
RoleContent(m) == [role |-> m.role, content |-> m.content]

ProfileMessage(name) == [role |-> "system", content |-> ProfileNote(name)]

\* variant of BuildMessages: the profile note is left out
BuildMessages_NoProfile(profile, h) ==
  <<[role |-> "system", content |-> SYSTEM_PROMPT]>>
  \o [i \in 1..Len(h) |-> RoleContent(h[i])]

BuildMessages(profile, h) ==
  <<[role |-> "system", content |-> SYSTEM_PROMPT]>>
  \o (IF Truthy(profile.name) THEN <<ProfileMessage(profile.name)>> ELSE <<>>)
  \o [i \in 1..Len(h) |-> RoleContent(h[i])]

(***************************************************************************)
(* The submit handler from the removal of the seed greeting to the await   *)
(* of callOpenAI, split at its two renderChat calls                        *)
(***************************************************************************)
\* variant of WithUserEntry: the greeting is not filtered out first
WithUserEntry_KeepsGreeting(h, text) == Append(h, UserEntry(text))

\* greeting filtered out, user entry pushed (first renderChat follows)
WithUserEntry(h, text) == Append(RemoveSeedGreeting(h), UserEntry(text))

\* typing indicator pushed (second renderChat follows)
WithPlaceholder(h) == Append(h, PlaceholderEntry)

\* variant of SendToFetch: the handler returns without calling callOpenAI
SendToFetch_NoCall(h, profile, text, before, id) ==
  LET shown == WithPlaceholder(WithUserEntry(h, text))
      sent == RemoveTransient(shown)
  IN /\ chatHistory' = sent
     /\ rendered' = shown
     /\ renders' = before \o <<RenderChat(WithUserEntry(h, text)),
                               RenderChat(shown)>>
     /\ inputDisabled' = TRUE
     /\ sendDisabled' = TRUE
     /\ requests' = requests

\* the handler, entered with transcript h and profile, runs to the fetch;
\* before holds what this run of the handler has drawn so far
SendToFetch(h, profile, text, before, id) ==
  LET shown == WithPlaceholder(WithUserEntry(h, text))
      sent == RemoveTransient(shown)
  IN /\ chatHistory' = sent
     /\ rendered' = shown
     /\ renders' = before \o <<RenderChat(WithUserEntry(h, text)),
                               RenderChat(shown)>>
     /\ inputDisabled' = TRUE
     /\ sendDisabled' = TRUE
     /\ requests' = Append(requests,
                           [id |-> id,
                            text |-> text,
                            messages |-> BuildMessages(profile, sent)])

(***************************************************************************)
(* Submit events on chatForm                                               *)
(***************************************************************************)
\* userInput.value as the handler can read it: the handler empties the
\* input when it disables it, and a disabled input cannot be typed into
ReadableInputs == IF inputDisabled THEN {""} ELSE InputTexts

IsNameCommand(text) == StartsWith(ToLowerCase(text), "/name ")

\* variant of CommandName: the value after the prefix is not trimmed
CommandName_Untrimmed(text) == Slice(text, 6)

CommandName(text) == Trim(Slice(text, 6))

\* variant of SubmitEmpty: the early return is missing and the empty text
\* is pushed as a user entry
SubmitEmpty_Pushes(raw) ==
  /\ microtasks = <<>>
  /\ raw \in ReadableInputs
  /\ Trim(raw) = ""
  /\ chatHistory' = Append(chatHistory, UserEntry(Trim(raw)))
  /\ last' = Step("submit", "empty", raw)
  /\ UNCHANGED <<fmt, inl>>
  /\ renders' = <<>>
  /\ UNCHANGED <<userProfile, hasAskedName, inputDisabled,
                 sendDisabled, rendered, modalWaiters, microtasks, requests,
                 promptCount, nSubmits>>

\* if (!text) return;
SubmitEmpty(raw) ==
  /\ microtasks = <<>>
  /\ raw \in ReadableInputs
  /\ Trim(raw) = ""
  /\ last' = Step("submit", "empty", raw)
  /\ UNCHANGED <<fmt, inl>>
  /\ renders' = <<>>
  /\ UNCHANGED <<chatHistory, userProfile, hasAskedName, inputDisabled,
                 sendDisabled, rendered, modalWaiters, microtasks, requests,
                 promptCount, nSubmits>>

\* the /name shortcut
SubmitCommand(raw) ==
  /\ microtasks = <<>>
  /\ raw \in ReadableInputs
  /\ nSubmits < MaxSubmits
  /\ Trim(raw) # ""
  /\ IsNameCommand(Trim(raw))
  /\ LET name == CommandName(Trim(raw))
     IN IF name # ""
        THEN /\ userProfile' = [userProfile EXCEPT !.name = name]
             /\ chatHistory' = Append(chatHistory, AckEntry(name))
             /\ rendered' = chatHistory'
             /\ renders' = <<RenderChat(chatHistory')>>
        ELSE /\ renders' = <<>>
             /\ UNCHANGED <<userProfile, chatHistory, rendered>>
  /\ nSubmits' = nSubmits + 1
  /\ last' = Step("submit", "command", raw)
  /\ UNCHANGED <<fmt, inl>>
  /\ UNCHANGED <<hasAskedName, inputDisabled, sendDisabled, modalWaiters,
                 microtasks, requests, promptCount>>

\* no name known and not asked yet: the handler opens the modal and is
\* suspended at await openNameModal()
SubmitAskName(raw) ==
  /\ microtasks = <<>>
  /\ raw \in ReadableInputs
  /\ nSubmits < MaxSubmits
  /\ Trim(raw) # ""
  /\ ~IsNameCommand(Trim(raw))
  /\ ~Truthy(userProfile.name) /\ ~hasAskedName
  /\ modalWaiters' = Append(modalWaiters,
                            [id |-> nSubmits + 1, text |-> Trim(raw)])
  /\ promptCount' = promptCount + 1
  /\ nSubmits' = nSubmits + 1
  /\ last' = Step("submit", "askName", raw)
  /\ UNCHANGED <<fmt, inl>>
  /\ renders' = <<>>
  /\ UNCHANGED <<chatHistory, userProfile, hasAskedName, inputDisabled,
                 sendDisabled, rendered, microtasks, requests>>

\* name known or already asked: the handler runs straight to the fetch
SubmitSend(raw) ==
  /\ microtasks = <<>>
  /\ raw \in ReadableInputs
  /\ nSubmits < MaxSubmits
  /\ Trim(raw) # ""
  /\ ~IsNameCommand(Trim(raw))
  /\ ~(~Truthy(userProfile.name) /\ ~hasAskedName)
  /\ SendToFetch(chatHistory, userProfile, Trim(raw), <<>>, nSubmits + 1)
  /\ nSubmits' = nSubmits + 1
  /\ last' = Step("submit", "send", raw)
  /\ UNCHANGED <<fmt, inl>>
  /\ UNCHANGED <<userProfile, hasAskedName, modalWaiters, microtasks,
                 promptCount>>

(***************************************************************************)
(* The name modal                                                          *)
(***************************************************************************)
\* onSubmit resolves with value || null, onSkip with null
ModalResult(ev) ==
  IF ev.type = "submit"
  THEN (IF Trim(ev.value) # "" THEN Trim(ev.value) ELSE Null)
  ELSE Null

\* One modal event runs the listeners of every open call of openNameModal:
\* each call registered its own onSubmit / onSkip / onKeydown closures on
\* the same elements, and cleanup() removes only the closures of its call.
ModalResolve(ev) ==
  /\ microtasks = <<>>
  /\ modalWaiters # <<>>
  /\ microtasks' = [i \in 1..Len(modalWaiters) |->
                      [id |-> modalWaiters[i].id,
                       text |-> modalWaiters[i].text,
                       nameValue |-> ModalResult(ev)]]
  /\ modalWaiters' = <<>>
  /\ last' = Step("modal", ev.type, ev.value)
  /\ UNCHANGED <<fmt, inl>>
  /\ renders' = <<>>
  /\ UNCHANGED <<chatHistory, userProfile, hasAskedName, inputDisabled,
                 sendDisabled, rendered, requests, promptCount, nSubmits>>

\* variant of ProfileAfterModal: the result of the modal is stored unguarded
ProfileAfterModal_Unguarded(profile, nameValue) ==
  [profile EXCEPT !.name = nameValue]

\* userProfile after `if (nameValue) userProfile.name = nameValue`
ProfileAfterModal(profile, nameValue) ==
  IF Truthy(nameValue) THEN [profile EXCEPT !.name = nameValue] ELSE profile

\* chatHistory after the acknowledgment of a name given in the modal
HistoryAfterModal(h, nameValue) ==
  IF Truthy(nameValue) THEN Append(h, AckEntry(nameValue)) ELSE h

\* the renderChat call that follows the acknowledgment
RendersAfterModal(h, nameValue) ==
  IF Truthy(nameValue)
  THEN <<RenderChat(HistoryAfterModal(h, nameValue))>>
  ELSE <<>>

\* continuation of the handler after await openNameModal(), to the fetch
ResumeAfterModal ==
  /\ microtasks # <<>>
  /\ LET task == Head(microtasks)
         profile == ProfileAfterModal(userProfile, task.nameValue)
     IN /\ userProfile' = profile
        /\ hasAskedName' = TRUE
        /\ SendToFetch(HistoryAfterModal(chatHistory, task.nameValue),
                       profile, task.text,
                       RendersAfterModal(chatHistory, task.nameValue),
                       task.id)
        /\ last' = Step("resume", "send", task.text)
        /\ UNCHANGED <<fmt, inl>>
  /\ microtasks' = Tail(microtasks)
  /\ UNCHANGED <<modalWaiters, promptCount, nSubmits>>

(***************************************************************************)
(* callOpenAI after its await fetch                                        *)
(***************************************************************************)
\* `${res.status}`
StatusText(status) == ToString(status)

\* variant of ResponseEntry: the catch block pushes the bare failure text
ResponseEntry_BareError(resp) ==
  CASE resp.outcome = "reply" -> ReplyEntry(resp.content, "reply")
    [] resp.outcome = "missing" -> ReplyEntry(FALLBACK, "fallback")
    [] OTHER -> ReplyEntry(resp.content, "error")

\* variant of ResponseEntry: the reply field is read without optional
\* chaining and default, so a missing field ends in the catch block
ResponseEntry_NoDefault(resp) ==
  CASE resp.outcome = "reply" -> ReplyEntry(resp.content, "reply")
    [] resp.outcome = "missing" ->
         ReplyEntry("Error: Cannot read properties of undefined", "error")
    [] resp.outcome = "notOk" ->
         ReplyEntry("Error: " \o "Worker proxy error: "
                      \o StatusText(resp.status) \o " " \o resp.content,
                    "error")
    [] resp.outcome = "throw" ->
         ReplyEntry("Error: " \o resp.content, "error")

\* the entry pushed in the try block or in the catch block
ResponseEntry(resp) ==
  CASE resp.outcome = "reply" -> ReplyEntry(resp.content, "reply")
    [] resp.outcome = "missing" -> ReplyEntry(FALLBACK, "fallback")
    [] resp.outcome = "notOk" ->
         ReplyEntry("Error: " \o "Worker proxy error: "
                      \o StatusText(resp.status) \o " " \o resp.content,
                    "error")
    [] resp.outcome = "throw" ->
         ReplyEntry("Error: " \o resp.content, "error")

\* variant of DisabledAfterCall: the controls are re-enabled at the end of
\* the try block only, so a failed call leaves them disabled
DisabledAfterCall_TryOnly(resp) == resp.outcome \in {"notOk", "throw"}

\* the finally block: userInput.disabled = false; sendBtn.disabled = false
DisabledAfterCall(resp) == FALSE

RemoveAt(s, i) == SubSeq(s, 1, i - 1) \o SubSeq(s, i + 1, Len(s))

\* the fetch of request i settles and callOpenAI runs to its end; the
\* handler that awaited it has nothing left to do
Response(i, resp) ==
  /\ microtasks = <<>>
  /\ i \in 1..Len(requests)
  /\ chatHistory' = Append(chatHistory, ResponseEntry(resp))
  /\ rendered' = chatHistory'
  /\ renders' = <<RenderChat(chatHistory')>>
  /\ inputDisabled' = DisabledAfterCall(resp)
  /\ sendDisabled' = DisabledAfterCall(resp)
  /\ requests' = RemoveAt(requests, i)
  /\ last' = Step("response", resp.outcome, resp.content)
  /\ UNCHANGED <<fmt, inl>>
  /\ UNCHANGED <<userProfile, hasAskedName, modalWaiters, microtasks,
                 promptCount, nSubmits>>

Next ==
  \/ \E raw \in InputTexts \cup {""} : SubmitEmpty(raw)
  \/ \E raw \in InputTexts : SubmitCommand(raw)
  \/ \E raw \in InputTexts : SubmitAskName(raw)
  \/ \E raw \in InputTexts : SubmitSend(raw)
  \/ \E ev \in ModalEvents : ModalResolve(ev)
  \/ ResumeAfterModal
  \/ \E i \in 1..Len(requests), resp \in Responses : Response(i, resp)

Spec == Init /\ [][Next]_vars

\* The name modal is eventually closed, a resolved promise runs its
\* continuation, and every fetch eventually settles.
FairSpec ==
  /\ Spec
  /\ WF_vars(\E ev \in ModalEvents : ModalResolve(ev))
  /\ WF_vars(ResumeAfterModal)
  /\ \A k \in 1..MaxSubmits :
       WF_vars(\E i \in 1..Len(requests), resp \in Responses :
                 requests[i].id = k /\ Response(i, resp))

(***************************************************************************)
(* formatMessage as a state machine of its own: a text is drawn, one step  *)
(* formats it, the page stays as the script left it.                       *)
(***************************************************************************)
MaxLines == 3

FmtLines == {"", " ", "plain", "# Title", "- one", "- two", "###  *h* x",
             " * **b**", "####### x", "# "}

RECURSIVE JoinLines(_, _)
JoinLines(ls, sep) ==
  IF Len(ls) = 0 THEN ""
  ELSE IF Len(ls) = 1 THEN ls[1]
  ELSE ls[1] \o sep \o JoinLines(Tail(ls), sep)

FmtExamples ==
  {"# Title\n- one\n- two\nplain",
   "# Title\r\n- one\r\n- two\r\nplain",
   "plain\n\n\nplain",
   "<b>x</b>",
   "a & b < c > d",
   "<img src=x onerror=alert(1)>",
   "&amp; &lt;br&gt;",
   "# <i>T</i>\n- <li> & **<u>**",
   "*<em>* _</strong>_",
   "<script>\n- </ul>\n# **</h1>**\n<br>"}

FmtTexts ==
  {JoinLines(ls, "\n") : ls \in UNION {[1..n -> FmtLines] : n \in 0..MaxLines}}
  \cup FmtExamples

FmtInit ==
  /\ ChatInit
  /\ fmt \in {[text |-> t, done |-> FALSE, parts |-> <<>>, html |-> ""] :
               t \in FmtTexts}
  /\ inl = InlIdle

Format ==
  /\ ~fmt.done
  /\ fmt' = [text |-> fmt.text,
             done |-> TRUE,
             parts |-> FormatParts(fmt.text),
             html |-> FormatMessage(fmt.text)]
  /\ UNCHANGED <<chatHistory, userProfile, hasAskedName, inputDisabled,
                 sendDisabled, rendered, renders, modalWaiters, microtasks,
                 requests, promptCount, nSubmits, last, inl>>

FmtNext == Format

SpecFmt == FmtInit /\ [][FmtNext]_vars

(***************************************************************************)
(* applyInlineFormatting as a state machine of its own: a line is drawn,   *)
(* the function is applied to it and then to its own result.               *)
(***************************************************************************)
MaxInlineLen == 6

MaxCalls == 2

MaxSpans == 3

InlineChars == {"*", "_", "a"}

RECURSIVE Strings(_)
\* all strings of length n over InlineChars
Strings(n) ==
  IF n = 0 THEN {""}
  ELSE {c \o t : c \in InlineChars, t \in Strings(n - 1)}

\* every arrangement of markers and text up to MaxInlineLen characters
MarkerLines == UNION {Strings(n) : n \in 0..MaxInlineLen}

\* a span: an interior between two equal markers
Spans == [mark : {"*", "**"}, inner : {"a", "b", "c"}]

SpanText(sp) == sp.mark \o sp.inner \o sp.mark

Separators == {" ", " x "}

SpanSeqs == UNION {[1..n -> Spans] : n \in 1..MaxSpans}

\* lines made of spans with a separator between them
SpanLines ==
  {JoinLines([i \in 1..Len(ss) |-> SpanText(ss[i])], sep) :
     ss \in SpanSeqs, sep \in Separators}

InlineExamples == {"**a*b** c*d", "*a* **b** *c*", "a **b** *c* _d_"}

InlineLines == MarkerLines \cup SpanLines \cup InlineExamples

InlineInit ==
  /\ ChatInit
  /\ fmt = FmtIdle
  /\ inl \in {[line |-> l, calls |-> 0, prev |-> l, out |-> l] :
               l \in InlineLines}

ApplyInline ==
  /\ inl.calls < MaxCalls
  /\ inl' = [line |-> inl.line,
             calls |-> inl.calls + 1,
             prev |-> inl.out,
             out |-> ApplyInlineFormatting(inl.out)]
  /\ UNCHANGED <<chatHistory, userProfile, hasAskedName, inputDisabled,
                 sendDisabled, rendered, renders, modalWaiters, microtasks,
                 requests, promptCount, nSubmits, last, fmt>>

InlineNext == ApplyInline

SpecInline == InlineInit /\ [][InlineNext]_vars

(***************************************************************************)
(* Properties                                                              *)
(***************************************************************************)
SeedCount(h) == Cardinality({i \in DOMAIN h : h[i].initial = TRUE})
HasUserEntry(h) == \E i \in DOMAIN h : h[i].role = "user"
Front(s) == SubSeq(s, 1, Len(s) - 1)
LastOf(s) == s[Len(s)]

\* C1: at most one request to the network collaborator is outstanding at
\* any time, whatever the interleaving of submit events, modal events and
\* responses.
C1_AtMostOneOutstanding == Len(requests) <= 1

\* C2: the transcript never holds more than one seed greeting, never holds
\* a seed greeting together with a user entry, and a transcript without
\* the greeting never gets it back.
C2_SeedGreeting ==
  /\ [](/\ SeedCount(chatHistory) <= 1
        /\ ~(SeedCount(chatHistory) > 0 /\ HasUserEntry(chatHistory)))
  /\ [][SeedCount(chatHistory) = 0 => SeedCount(chatHistory') = 0]_vars

C2_Witness == HasUserEntry(chatHistory) /\ SeedCount(chatHistory) = 0

\* C3: no request in flight carries an assistant message whose content is
\* the placeholder text, and between two steps of the handler the
\* transcript holds no entry pushed as placeholder.
C3_PlaceholderRemoved ==
  /\ \A r \in 1..Len(requests) : \A k \in 1..Len(requests[r].messages) :
       ~(/\ requests[r].messages[k].role = "assistant"
         /\ requests[r].messages[k].content = PLACEHOLDER)
  /\ \A i \in 1..Len(chatHistory) : chatHistory[i].kind # "placeholder"

\* a request is in flight while the window still shows the placeholder
C3_Witness ==
  /\ Len(requests) > 0
  /\ Len(rendered) > 0
  /\ LastOf(rendered).kind = "placeholder"

\* C4: openNameModal is called at most once per session, only while no
\* name is known, and never for an empty or /name submission.
C4_PromptAtMostOnce ==
  /\ promptCount <= 1
  /\ (last.op = "submit" /\ last.path = "askName") =>
       /\ ~Truthy(userProfile.name)
       /\ Trim(last.text) # ""
       /\ ~StartsWith(ToLowerCase(Trim(last.text)), "/name ")

\* C5: every network call that terminates, on any of its three paths,
\* leaves the input control and the send button enabled.
C5_ControlsReenabled ==
  [][last'.op = "response" => (~inputDisabled' /\ ~sendDisabled')]_vars

\* a call that threw has terminated after the controls had been disabled
C5_Witness ==
  /\ last.op = "response" /\ last.path = "throw"
  /\ ~inputDisabled /\ ~sendDisabled

\* C6: a terminated network call appends exactly one assistant entry and
\* leaves the earlier entries unchanged; when the call failed the content
\* of that entry is "Error: " followed by the failure description.
C6_ErrorEntry ==
  [][last'.op = "response" =>
       /\ Len(chatHistory') = Len(chatHistory) + 1
       /\ Front(chatHistory') = chatHistory
       /\ LastOf(chatHistory').role = "assistant"
       /\ (last'.path = "throw" =>
             LastOf(chatHistory').content = "Error: " \o last'.text)
       /\ (last'.path = "notOk" =>
             LastOf(chatHistory').content
               = "Error: Worker proxy error: 500 " \o last'.text)]_vars

C6_Witness ==
  /\ last.op = "response" /\ last.path = "notOk"
  /\ Len(chatHistory) > 1
  /\ LastOf(chatHistory).content = "Error: Worker proxy error: 500 down"

\* C7: pushing the placeholder and filtering it out gives back the
\* transcript as it was before the push: when the handler has run to its
\* fetch, the transcript is what the window shows without its last entry.
C7_PlaceholderRoundTrip ==
  last.path = "send" => chatHistory = Front(rendered)

\* C8: while a request is outstanding the input control and the send
\* button are both disabled.
C8_DisabledWhileOutstanding ==
  Len(requests) > 0 => (inputDisabled /\ sendDisabled)

\* C9: a submission "/name <value>" sets the profile name to the trimmed
\* value, appends one acknowledgment entry and changes nothing else.
C9_NameCommand ==
  [][(/\ last'.op = "submit"
      /\ Len(Trim(last'.text)) > 6
      /\ ToLowerCase(SubSeq(Trim(last'.text), 1, 6)) = "/name ")
     =>
     LET text == Trim(last'.text)
         value == Trim(SubSeq(text, 7, Len(text)))
     IN /\ value # ""
        /\ userProfile'.name = value
        /\ Len(chatHistory') = Len(chatHistory) + 1
        /\ Front(chatHistory') = chatHistory
        /\ LastOf(chatHistory').role = "assistant"
        /\ LastOf(chatHistory').content =
             "Nice to meet you, " \o value
               \o ". I'll remember that for this session."
        /\ ~HasUserEntry(<<LastOf(chatHistory')>>)
        /\ SeedCount(chatHistory') = SeedCount(chatHistory)
        /\ promptCount' = promptCount
        /\ modalWaiters' = modalWaiters
        /\ hasAskedName' = hasAskedName
        /\ ~inputDisabled /\ ~inputDisabled'
        /\ ~sendDisabled /\ ~sendDisabled'
        /\ requests' = requests]_vars

C9_Witness ==
  /\ last.op = "submit" /\ last.text = "/NAME  Al "
  /\ userProfile.name = "Al"
  /\ SeedCount(chatHistory) = 1

\* C10 as stated: once the profile name is non-empty no step changes it.
C10_NameSetOnce ==
  [][Truthy(userProfile.name) => userProfile'.name = userProfile.name]_vars

\* C10 as amended: a non-empty profile name is never cleared, and it is
\* replaced only by a /name command or by the resumption of a submission
\* whose name modal returned a name.
C10_NameNeverCleared ==
  [][Truthy(userProfile.name) =>
       /\ Truthy(userProfile'.name)
       /\ (userProfile'.name # userProfile.name =>
             \/ (last'.op = "submit" /\ last'.path = "command")
             \/ last'.op = "resume")]_vars

\* the name was set to Al and later replaced by Bo
C10_Witness ==
  /\ userProfile.name = "Bo"
  /\ \E i \in 1..Len(chatHistory) : chatHistory[i] = AckEntry("Al")

\* C11: a submit event whose input is empty or only whitespace changes
\* nothing: transcript, profile, asked-name flag, controls, modal and
\* requests are as before.
C11_EmptySubmitNoOp ==
  [][(last'.op = "submit" /\ Trim(last'.text) = "") =>
       /\ chatHistory' = chatHistory
       /\ userProfile' = userProfile
       /\ hasAskedName' = hasAskedName
       /\ inputDisabled' = inputDisabled
       /\ sendDisabled' = sendDisabled
       /\ promptCount' = promptCount
       /\ modalWaiters' = modalWaiters
       /\ requests' = requests]_vars

\* a whitespace-only input was submitted while a handler waits at the modal
C11_Witness ==
  /\ last.op = "submit" /\ last.text = "  "
  /\ Len(modalWaiters) > 0

\* C12: the request just sent is the persona instruction, then the profile
\* note exactly when a name is known, then the transcript in order as
\* role and content; it ends with the user entry of the submission and
\* the transcript it carries holds no seed greeting.
C12_RequestShape ==
  last.path = "send" =>
    LET sent == LastOf(requests).messages
        note == IF userProfile.name # Null /\ userProfile.name # ""
                THEN <<[role |-> "system",
                        content |-> "User profile: name=" \o userProfile.name
                          \o ". Remember this for future responses and personalize when appropriate."]>>
                ELSE <<>>
    IN /\ sent = <<[role |-> "system", content |-> SYSTEM_PROMPT]>> \o note
                 \o [i \in 1..Len(chatHistory) |->
                       [role |-> chatHistory[i].role,
                        content |-> chatHistory[i].content]]
       /\ LastOf(sent) = [role |-> "user", content |-> Trim(last.text)]
       /\ \A i \in 1..Len(chatHistory) : chatHistory[i].initial = FALSE

\* a request was sent with the profile note and a transcript of some length
C12_Witness ==
  /\ last.path = "send"
  /\ userProfile.name = "Al"
  /\ Len(LastOf(requests).messages) >= 5

UserCount(h) == Cardinality({i \in DOMAIN h : h[i].role = "user"})

\* C14: the run of the handler that accepts a non-command submission
\* appends exactly one user entry, whose content is the trimmed input, and
\* leaves no seed greeting in the transcript.
C14_UserEntryAppended ==
  [][last'.path = "send" =>
       /\ UserCount(chatHistory') = UserCount(chatHistory) + 1
       /\ LastOf(chatHistory').role = "user"
       /\ LastOf(chatHistory').content = Trim(last'.text)
       /\ Len(Trim(last'.text)) > 0
       /\ SeedCount(chatHistory') = 0]_vars

\* one submission of " hi " in a fresh session
C14_Witness ==
  /\ last.path = "send"
  /\ UserCount(chatHistory) = 1
  /\ LastOf(chatHistory).content = "hi"
  /\ SeedCount(chatHistory) = 0
  /\ nSubmits = 1

IsRealEntry(m) == m.kind \in {"user", "reply", "fallback", "error", "ack"}
RealEntries(h) == SelectSeq(h, IsRealEntry)
IsPrefix(s, t) == Len(s) <= Len(t) /\ SubSeq(t, 1, Len(s)) = s

\* C15: apart from the greeting and the placeholder the transcript only
\* grows at its end: the user, reply, error and acknowledgment entries of
\* a state are, unchanged and in order, the first such entries of the next.
C15_AppendOnly ==
  [][IsPrefix(RealEntries(chatHistory), RealEntries(chatHistory'))]_vars

\* C17: a success response without the reply field appends the fixed
\* fallback text, not an error entry; with the field, exactly its value.
C17_FallbackReply ==
  [][last'.op = "response" =>
       /\ (last'.path = "missing" =>
             /\ LastOf(chatHistory').content
                  = "Sorry, I did not receive a reply."
             /\ LastOf(chatHistory').role = "assistant")
       /\ (last'.path = "reply" =>
             /\ LastOf(chatHistory').content = last'.text
             /\ LastOf(chatHistory').role = "assistant")]_vars

C17_Witness ==
  /\ last.op = "response" /\ last.path = "missing"
  /\ LastOf(chatHistory).content = FALLBACK
  /\ LastOf(chatHistory).kind = "fallback"

Unlabeled(window) == {i \in 1..Len(window) : window[i].meta = ""}

\* C13: in every window drawn, a block has no author label exactly when
\* it is the first assistant block and the window has no user block; at
\* most one block is unlabeled, and it is always the seed greeting.
C13_LabelSuppression ==
  \A r \in 1..Len(renders) :
    LET window == renders[r]
    IN /\ \A i \in 1..Len(window) :
            (window[i].meta = "") <=>
              /\ window[i].role = "assistant"
              /\ \A j \in 1..(i - 1) : window[j].role # "assistant"
              /\ \A j \in 1..Len(window) : window[j].role # "user"
       /\ \A i \in 1..Len(window) :
            window[i].meta # "" =>
              window[i].meta = (IF window[i].role = "user"
                                THEN "You" ELSE "Advisor")
       /\ Cardinality(Unlabeled(window)) <= 1
       /\ \A i \in Unlabeled(window) : window[i].kind = "seed"

\* the greeting drawn without label above a labelled acknowledgment
C13_Witness ==
  /\ Len(renders) > 0
  /\ Len(LastOf(renders)) = 2
  /\ LastOf(renders)[1].meta = "" /\ LastOf(renders)[1].kind = "seed"
  /\ LastOf(renders)[2].meta = "Advisor" /\ LastOf(renders)[2].kind = "ack"

\* submission k is accepted and its network call has not terminated
Pending(k) ==
  \/ \E i \in 1..Len(modalWaiters) : modalWaiters[i].id = k
  \/ \E i \in 1..Len(microtasks) : microtasks[i].id = k
  \/ \E i \in 1..Len(requests) : requests[i].id = k

PendingText(k) ==
  LET all == modalWaiters \o microtasks \o requests
  IN all[CHOOSE i \in 1..Len(all) : all[i].id = k].text

\* C16: every accepted non-command submission stops being pending, and it
\* does so only in the step that ends its network call, which appends an
\* assistant entry to a transcript that holds the submission's user entry.
C16_EventuallyAnswered ==
  /\ \A k \in 1..MaxSubmits : Pending(k) ~> ~Pending(k)
  /\ [][\A k \in 1..MaxSubmits :
          (Pending(k) /\ ~Pending(k)') =>
            /\ last'.op = "response"
            /\ Len(chatHistory') = Len(chatHistory) + 1
            /\ LastOf(chatHistory').role = "assistant"
            /\ \E i \in 1..Len(chatHistory) :
                 /\ chatHistory[i].role = "user"
                 /\ chatHistory[i].content = PendingText(k)]_vars

\* a submission that waited at the modal has been answered
C16_Witness ==
  /\ last.op = "response"
  /\ hasAskedName
  /\ Len(requests) = 0 /\ Len(modalWaiters) = 0 /\ Len(microtasks) = 0
  /\ LastOf(chatHistory).role = "assistant"
  /\ UserCount(chatHistory) >= 1

(***************************************************************************)
(* formatMessage (SpecFmt)                                                 *)
(***************************************************************************)
\* the strings appended to `formatted`, in order
Chunks == Flatten(fmt.parts)

\* the lines the loop went over
InputLines == SplitLines(EscapeHtml(fmt.text))

IsItem(c) == StartsWith(c, "<li>")

IsHeadingChunk(c) == StartsWith(c, "<h")

IsListTag(c) == c \in {"<ul>", "</ul>"}

\* lists opened minus lists closed within the first i strings of c
Depth(c, i) ==
  Cardinality({j \in 1..i : c[j] = "<ul>"})
  - Cardinality({j \in 1..i : c[j] = "</ul>"})

\* C18: list-open and list-close tags alternate starting with an open,
\* every list item lies inside an open list, every heading, prose line and
\* break lies outside, and the output ends with no list open; a heading
\* line, two bullet lines and a prose line give one heading, one two-item
\* list closed before the prose, then the prose.
C18_ListStructure ==
  fmt.done =>
    /\ \A i \in 1..Len(Chunks) : Depth(Chunks, i) \in {0, 1}
    /\ \A i \in 1..Len(Chunks) :
         IsItem(Chunks[i]) => Depth(Chunks, i) = 1
    /\ \A i \in 1..Len(Chunks) :
         (~IsItem(Chunks[i]) /\ ~IsListTag(Chunks[i]))
           => Depth(Chunks, i) = 0
    /\ Depth(Chunks, Len(Chunks)) = 0
    /\ fmt.html = Concat(Chunks)
    /\ fmt.text \in {"# Title\n- one\n- two\nplain",
                     "# Title\r\n- one\r\n- two\r\nplain"}
         => fmt.html = "<h1>Title</h1><ul><li>one</li><li>two</li></ul>plain"

C18_Witness ==
  /\ fmt.done
  /\ fmt.text = "# Title\n- one\n- two\nplain"
  /\ Chunks = <<"<h1>Title</h1>", "<ul>", "<li>one</li>", "<li>two</li>",
                "</ul>", "plain">>

\* the strings appended for line i
LinePart(i) == fmt.parts[i]

Breaks(part) == Cardinality({j \in 1..Len(part) : part[j] = "<br>"})

\* line i was emitted as a regular line: neither heading nor list item
IsProsePart(part) ==
  \A j \in 1..Len(part) : ~IsItem(part[j]) /\ ~IsHeadingChunk(part[j])

Blank(l) == Trim(l) = ""

\* l starts like a heading: 1 to 6 #, then white space
HeadingStart(l) ==
  \E n \in 1..6 :
    /\ Len(l) > n
    /\ \A j \in 1..n : CharAt(l, j) = "#"
    /\ IsSpace(CharAt(l, n + 1))

\* l starts like a bullet: optional white space, one of - * +, white space
BulletStart(l) ==
  \E a \in 0..Len(l) :
    /\ Len(l) >= a + 2
    /\ \A j \in 1..a : IsSpace(CharAt(l, j))
    /\ CharAt(l, a + 1) \in {"-", "*", "+"}
    /\ IsSpace(CharAt(l, a + 2))

\* the number of breaks the rules give after regular line i
BreaksDue(lines, i) ==
  IF i = Len(lines) THEN 0
  ELSE IF Blank(lines[i]) \/ Blank(lines[i + 1]) THEN 1
  ELSE IF HeadingStart(lines[i + 1]) \/ BulletStart(lines[i + 1]) THEN 0
  ELSE 1

RECURSIVE BreaksBetween(_, _)
BreaksBetween(i, j) ==
  IF i >= j THEN 0 ELSE Breaks(LinePart(i)) + BreaksBetween(i + 1, j)

C20_Heading ==
  (fmt.done /\ fmt.text # "") =>
    LET lines == InputLines
    IN /\ \A i \in 1..Len(lines) :
            LET n == LeadingHashes(lines[i])
                rest == SubSeq(lines[i], n + 1, Len(lines[i]))
                w == LeadingSpaces(rest)
                r == SubSeq(rest, w + 1, Len(rest))
                before == Flatten(SubSeq(fmt.parts, 1, i - 1))
            IN (n \in 1..6 /\ w >= 1 /\ Len(r) > 0) =>
                 LinePart(i) =
                   (IF Depth(before, Len(before)) = 1
                    THEN <<"</ul>">> ELSE <<>>)
                   \o <<"<h" \o ToString(n) \o ">"
                          \o ApplyInlineFormatting(r)
                          \o "</h" \o ToString(n) \o ">">>
       /\ \A j \in 1..Len(Chunks) :
            IsHeadingChunk(Chunks[j]) =>
              \E n \in 1..6 :
                StartsWith(Chunks[j], "<h" \o ToString(n) \o ">")
       /\ fmt.text = "- one\n###  *h* x"
            => fmt.html = "<ul><li>one</li></ul><h3><em>h</em> x</h3>"

C20_Witness ==
  /\ fmt.done
  /\ fmt.text = "- one\n###  *h* x\nplain"
  /\ fmt.parts = <<<<"<ul>", "<li>one</li>">>,
                   <<"</ul>", "<h3><em>h</em> x</h3>">>,
                   <<"plain">>, <<>>>>

\* t occurs in s at position p
SubAt(s, p, t) ==
  /\ p >= 1
  /\ p + Len(t) - 1 <= Len(s)
  /\ SubSeq(s, p, p + Len(t) - 1) = t

\* number of occurrences of t in s
CountOf(s, t) == Cardinality({p \in 1..Len(s) : SubAt(s, p, t)})

\* the tags formatMessage and applyInlineFormatting write themselves
OwnTags ==
  {"<h" \o ToString(n) \o ">" : n \in 1..6}
  \cup {"</h" \o ToString(n) \o ">" : n \in 1..6}
  \cup {"<ul>", "</ul>", "<li>", "</li>", "<strong>", "</strong>",
        "<em>", "</em>", "<br>"}

Entities == {"&amp;", "&lt;", "&gt;"}

\* C21: every <, > and & of the text is in the output in escaped form
\* only, once each: each < and > of the output belongs to a tag the
\* formatter wrote, each & of the output starts an entity, and the output
\* has one entity per special character of the text.
C21_EscapedOnce ==
  fmt.done =>
    /\ \A p \in 1..Len(fmt.html) :
         /\ CharAt(fmt.html, p) = "<"
              => \E t \in OwnTags : SubAt(fmt.html, p, t)
         /\ CharAt(fmt.html, p) = ">"
              => \E t \in OwnTags : SubAt(fmt.html, p - Len(t) + 1, t)
         /\ CharAt(fmt.html, p) = "&"
              => \E e \in Entities : SubAt(fmt.html, p, e)
    /\ CountOf(fmt.html, "&lt;") = CountOf(fmt.text, "<")
    /\ CountOf(fmt.html, "&gt;") = CountOf(fmt.text, ">")
    /\ CountOf(fmt.html, "&amp;") = CountOf(fmt.text, "&")
    /\ CountOf(fmt.html, "&") =
         CountOf(fmt.text, "<") + CountOf(fmt.text, ">")
         + CountOf(fmt.text, "&")

C21_Witness ==
  /\ fmt.done
  /\ fmt.text = "<script>\n- </ul>\n# **</h1>**\n<br>"
  /\ fmt.html = "&lt;script&gt;<ul><li>&lt;/ul&gt;</li></ul>"
                  \o "<h1><strong>&lt;/h1&gt;</strong></h1>&lt;br&gt;"

(***************************************************************************)
(* applyInlineFormatting (SpecInline)                                      *)
(***************************************************************************)
\* the result of the first call
FirstOut == IF inl.calls = 1 THEN inl.out ELSE inl.prev

\* what the claim asks for a span: its interior in one wrapper
SpanWrapped(sp) ==
  IF sp.mark = "**"
  THEN "<strong>" \o sp.inner \o "</strong>"
  ELSE "<em>" \o sp.inner \o "</em>"

\* each line of spans with the result asked for it
SpanCases ==
  {<<JoinLines([i \in 1..Len(ss) |-> SpanText(ss[i])], sep),
     JoinLines([i \in 1..Len(ss) |-> SpanWrapped(ss[i])], sep)>> :
     ss \in SpanSeqs, sep \in Separators}

\* C22: in a line of *X* and **X** spans with marker-free interiors and
\* marker-free text between them, every ** interior gets one strong
\* wrapper, every * interior one em wrapper, and no marker is paired with
\* the marker of another span; "*a* **b** *c*" marks b strong, a and c em.
C22_SpansWrapped ==
  inl.calls >= 1 =>
    /\ \A c \in SpanCases : inl.line = c[1] => FirstOut = c[2]
    /\ inl.line = "*a* **b** *c*"
         => FirstOut = "<em>a</em> <strong>b</strong> <em>c</em>"

C22_Witness ==
  /\ inl.calls = 1
  /\ inl.line = "*a* **b** *c*"
  /\ inl.out = "<em>a</em> <strong>b</strong> <em>c</em>"

\* the character an entity stands for
Decoded(e) ==
  CASE e = "&amp;" -> "&"
    [] e = "&lt;" -> "<"
    [] e = "&gt;" -> ">"

\* markup to text, from position p: tags removed, each break a newline,
\* entities decoded
RECURSIVE ExtractFrom(_, _)
ExtractFrom(s, p) ==
  IF p > Len(s) THEN ""
  ELSE IF \E t \in OwnTags : SubAt(s, p, t)
  THEN LET t == CHOOSE u \in OwnTags : SubAt(s, p, u)
       IN (IF t = "<br>" THEN "\n" ELSE "") \o ExtractFrom(s, p + Len(t))
  ELSE IF \E e \in Entities : SubAt(s, p, e)
  THEN LET e == CHOOSE u \in Entities : SubAt(s, p, u)
       IN Decoded(e) \o ExtractFrom(s, p + Len(e))
  ELSE CharAt(s, p) \o ExtractFrom(s, p + 1)

ExtractText(s) == ExtractFrom(s, 1)

IsMarkerChar(c) == c \in {"#", "-", "*", "+", "_"}

\* s without marker characters and white space
RECURSIVE Unmarked(_)
Unmarked(s) ==
  IF Len(s) = 0 THEN s
  ELSE (IF IsMarkerChar(CharAt(s, 1)) \/ IsSpace(CharAt(s, 1))
        THEN "" ELSE CharAt(s, 1))
       \o Unmarked(SubSeq(s, 2, Len(s)))

\* a from position i on can be had from b from position j on by deleting
\* characters
RECURSIVE DeletedFrom(_, _, _, _)
DeletedFrom(a, i, b, j) ==
  IF i > Len(a) THEN TRUE
  ELSE IF j > Len(b) THEN FALSE
  ELSE IF CharAt(a, i) = CharAt(b, j) THEN DeletedFrom(a, i + 1, b, j + 1)
  ELSE DeletedFrom(a, i, b, j + 1)

\* C23 as stated: the extracted text has the lines of the input, one for
\* one and in order, each differing from its input line only by marker
\* characters.
C23_RoundTrip ==
  fmt.done =>
    LET got == SplitLines(ExtractText(fmt.html))
        lines == SplitLines(fmt.text)
    IN /\ Len(got) = Len(lines)
       /\ \A i \in 1..Len(lines) :
            /\ i <= Len(got)
            /\ Unmarked(got[i]) = Unmarked(lines[i])
            /\ DeletedFrom(got[i], 1, lines[i], 1)

\* C23 amended: the extracted text is the input with characters deleted,
\* all of them marker characters, white space or line ends; the lines keep
\* their order, and a newline stands only where a break was emitted.
C23_ContentKept ==
  fmt.done =>
    /\ DeletedFrom(ExtractText(fmt.html), 1, fmt.text, 1)
    /\ Unmarked(ExtractText(fmt.html)) = Unmarked(fmt.text)
    /\ CountOf(ExtractText(fmt.html), "\n") = CountOf(fmt.html, "<br>")

C23_Witness ==
  /\ fmt.done
  /\ fmt.text = "# Title\n- one\n- two\nplain"
  /\ ExtractText(fmt.html) = "Titleonetwoplain"

\* C24: a line with at most one * and at most one _ comes back as it is,
\* and so do the marker pairs with nothing between them ("**", "****",
\* "__", "____"); applying the function to its own result changes nothing.
C24_LiteralAndIdempotent ==
  /\ inl.calls >= 1 =>
       /\ (CountOf(inl.line, "*") <= 1 /\ CountOf(inl.line, "_") <= 1)
            => FirstOut = inl.line
       /\ inl.line \in {"**", "****", "__", "____"} => FirstOut = inl.line
  /\ inl.calls >= 2 => inl.out = inl.prev

C24_Witness ==
  /\ inl.calls = 2
  /\ inl.line = "*a*_a"
  /\ inl.prev = "<em>a</em>_a"
  /\ inl.out = inl.prev

\* the wrappers of s from position p on close in the reverse order of
\* their opening, given the wrappers open at p (innermost last)
RECURSIVE WellNested(_, _, _)
WellNested(s, p, open) ==
  IF p > Len(s) THEN open = <<>>
  ELSE IF SubAt(s, p, "<strong>")
  THEN WellNested(s, p + 8, Append(open, "strong"))
  ELSE IF SubAt(s, p, "<em>")
  THEN WellNested(s, p + 4, Append(open, "em"))
  ELSE IF SubAt(s, p, "</strong>")
  THEN /\ open # <<>>
       /\ open[Len(open)] = "strong"
       /\ WellNested(s, p + 9, SubSeq(open, 1, Len(open) - 1))
  ELSE IF SubAt(s, p, "</em>")
  THEN /\ open # <<>>
       /\ open[Len(open)] = "em"
       /\ WellNested(s, p + 5, SubSeq(open, 1, Len(open) - 1))
  ELSE WellNested(s, p + 1, open)

\* C26: the strong and em wrappers written by applyInlineFormatting are
\* properly nested: each one opened is closed, innermost first.
C26_ProperNesting ==
  inl.calls >= 1 => WellNested(FirstOut, 1, <<>>)

\* C27: between two non-blank lines the break is left out only if the
\* second is emitted as a heading or a list item; two non-blank lines that
\* are both emitted as regular lines have one break between them.
C27_LookAheadAgrees ==
  (fmt.done /\ fmt.text # "") =>
    \A i \in 1..(Len(InputLines) - 1) :
      ( /\ IsProsePart(LinePart(i))
        /\ ~Blank(InputLines[i])
        /\ ~Blank(InputLines[i + 1]) )
        => Breaks(LinePart(i)) =
             IF IsProsePart(LinePart(i + 1)) THEN 1 ELSE 0

(***************************************************************************)
(* Order of replies (Spec)                                                 *)
(***************************************************************************)
\* no handler waits for the name modal or its continuation, no fetch is
\* in flight
Quiescent ==
  /\ modalWaiters = <<>>
  /\ microtasks = <<>>
  /\ requests = <<>>

\* C25: when no submission is in progress, every user entry of the
\* transcript is directly followed by the reply, fallback or error entry
\* of its request.
C25_ReplyFollowsUser ==
  Quiescent =>
    \A i \in 1..Len(chatHistory) :
      chatHistory[i].role = "user" =>
        /\ i < Len(chatHistory)
        /\ chatHistory[i + 1].role = "assistant"
        /\ chatHistory[i + 1].kind \in {"reply", "fallback", "error"}

====
